---- MODULE Spec2Model ----
(***************************************************************************)
(* Slide puzzle game (SPGame, src/spgame.ts): grid arithmetic, the         *)
(* solvability proof, the shuffle generator and the game state machine.    *)
(* Arrays of the source are TLA+ sequences; At(arr, i) reads index i of a  *)
(* zero-based array.  A Vector2 (x, y) is the pair <<x, y>>: x is the row, *)
(* y is the column.                                                        *)
(***************************************************************************)
EXTENDS Integers, Sequences, FiniteSets, TLC

\* ------------------------------------------------------------------ bounds
\* largest side of a puzzle shape used by the solvability development
MaxSide == 4
\* largest tile count used by the solvability development
MaxCells == 6
\* largest tile count of a puzzle in the game and in the shuffle loop
MaxTiles == 6
\* largest tile count of a puzzle in the game with a fair engine
MaxLiveTiles == 4
MaxDrift == 1

\* --------------------------------------------------------------- arrays
At(arr, i) == arr[i + 1]

\* Array.prototype.indexOf: first index holding v, -1 when absent
indexOf(arr, v) ==
    LET found == {i \in 1..Len(arr) : arr[i] = v}
    IN  IF found = {} THEN 0 - 1
        ELSE (CHOOSE i \in found : \A k \in found : i <= k) - 1

\* the comperator / unshuffled array 0 .. n-1
identityArr(n) == [i \in 1..n |-> i - 1]

\* all orderings of 0 .. n-1
insertAt(p, k, v) ==
    [i \in 1..(Len(p) + 1) |-> IF i < k THEN p[i] ELSE IF i = k THEN v ELSE p[i - 1]]

RECURSIVE Permutations0(_)
Permutations0(n) ==
    IF n = 0 THEN {<<>>}
    ELSE {insertAt(p, k, n - 1) : p \in Permutations0(n - 1), k \in 1..n}

\* ----------------------------------------------------------- grid model
\* row and column of a one-dimensional index
\* the remainder operator of the source language: the sign follows the dividend
jsRem(a, b) == IF a >= 0 THEN a % b ELSE 0 - ((0 - a) % b)

\* toGrid that divides by the number of rows
toGridByRows(index, shape) == <<index \div shape[1], jsRem(index, shape[1])>>

toGrid(index, shape) == <<index \div shape[2], jsRem(index, shape[2])>>

\* Vector2.subtract and Vector2.lengthSquared
subtract(a, b) == <<a[1] - b[1], a[2] - b[2]>>

lengthSquared(v) == v[1] * v[1] + v[2] * v[2]

\* ------------------------------------------------- solvability checker
\* the number of entries of arr.slice(0, end): a negative end counts from
\* the end of the array
sliceEnd(arr, end) ==
    IF end < 0 THEN (IF Len(arr) + end < 0 THEN 0 ELSE Len(arr) + end)
    ELSE IF end > Len(arr) THEN Len(arr) ELSE end

\* number of entries before position k (exclusive) that are smaller than n:
\* arr.slice(0, arr.indexOf(n)).filter(i => i < n).length
smallerBefore(arr, n) ==
    Cardinality({k \in 1..sliceEnd(arr, indexOf(arr, n)) : arr[k] < n})

RECURSIVE permutationSumFrom(_, _, _)
permutationSumFrom(arr, n, voidIndex) ==
    IF n >= voidIndex THEN 0
    ELSE (n - smallerBefore(arr, n)) + permutationSumFrom(arr, n + 1, voidIndex)

\* a solvability checker that accepts nothing
permutationProofRejectsAll(arr, shape) == Len(arr) < 0

\* permutationProof without the row of the void tile
permutationProofNoRow(arr, shape) ==
    permutationSumFrom(arr, 1, Len(arr) - 1) % 2 = 0

permutationProof(arr, shape) ==
    LET voidIndex == Len(arr) - 1
        permutationSum == permutationSumFrom(arr, 1, voidIndex)
        rowIndex == indexOf(arr, voidIndex) \div shape[2]
        rowBottomCnt == shape[1] - rowIndex
    IN  IF jsRem(shape[2], 2) = 1
        THEN jsRem(permutationSum, 2) = 0
        ELSE jsRem(permutationSum + rowBottomCnt, 2) = 1

\* ------------------------------------------ legal void moves on an array
\* positions p, q of the grid are 4-neighbours
Adjacent(p, q, shape) == lengthSquared(subtract(toGrid(p, shape), toGrid(q, shape))) = 1

swapAt(arr, p, q) ==
    [i \in 1..Len(arr) |-> IF i = p + 1 THEN arr[q + 1] ELSE IF i = q + 1 THEN arr[p + 1] ELSE arr[i]]

\* arrangements one void move away from arr
VoidMoves(arr, shape) ==
    LET vp == indexOf(arr, Len(arr) - 1)
    IN  {swapAt(arr, vp, q) : q \in {q \in 0..(Len(arr) - 1) : Adjacent(vp, q, shape)}}

RECURSIVE Closure(_, _, _)
Closure(seen, frontier, shape) ==
    IF Cardinality(frontier) = 0 \/ Cardinality(seen) = 0 THEN seen
    ELSE LET next == (UNION {VoidMoves(a, shape) : a \in frontier}) \ seen
         IN  Closure(seen \cup next, next, shape)


\* ----------------------------------------------------- array conversions
DigitChars == <<"0", "1", "2", "3", "4", "5", "6", "7", "8", "9">>

RECURSIVE natStr(_)
natStr(n) == IF n < 10 THEN <<DigitChars[n + 1]>> ELSE natStr(n \div 10) \o <<DigitChars[(n % 10) + 1]>>

numStr(n) == IF n < 0 THEN <<"-">> \o natStr(0 - n) ELSE natStr(n)

\* Array.prototype.toString: the decimal elements joined by ","
RECURSIVE toString(_)
toString(arr) ==
    IF Len(arr) = 0 THEN <<>>
    ELSE IF Len(arr) = 1 THEN numStr(arr[1])
    ELSE numStr(arr[1]) \o <<",">> \o toString(Tail(arr))

\* [...arr].sort((n1, n2) => n1 - n2): ascending numeric order
RECURSIVE insertSorted(_, _)
insertSorted(sorted, v) ==
    IF Len(sorted) = 0 THEN <<v>>
    ELSE IF v < sorted[1] THEN <<v>> \o sorted
    ELSE <<sorted[1]>> \o insertSorted(Tail(sorted), v)

RECURSIVE sortArr(_)
sortArr(arr) ==
    IF Len(arr) = 0 THEN <<>> ELSE insertSorted(sortArr(Tail(arr)), arr[1])

\* the array passed and the sorted one after `[...arr].sort(...)` with sort
\* called on the array itself
sortInPlace(arr) == [arr |-> sortArr(arr), arrSort |-> sortArr(arr)]

\* the array passed and the sorted one after `[...arr].sort(...)`: the spread
\* makes a copy and sort works on the copy
cloneAndSort(arr) == [arr |-> arr, arrSort |-> sortArr(arr)]

\* the array arr.slice(0, end) leaves behind: slice copies
receiverAfterSlice(arr, end) == arr

\* the array passed to permutationProof when it returns: one slice per
\* round of the loop; indexOf, filter and reduce leave their array alone
RECURSIVE arrAfterProofFrom(_, _, _)
arrAfterProofFrom(arr, n, voidIndex) ==
    IF n >= voidIndex THEN arr
    ELSE arrAfterProofFrom(receiverAfterSlice(arr, indexOf(arr, n)), n + 1, voidIndex)

arrAfterProof(arr) == arrAfterProofFrom(arr, 1, Len(arr) - 1)

\* the array passed to setfixedShuffleArr when it returns or throws
arrAfterSetfixed(cnt, a) ==
    LET comperator == identityArr(cnt)
        sorted == cloneAndSort(a)
    IN  IF toString(sorted.arr) = toString(comperator) THEN sorted.arr
        ELSE IF toString(sorted.arrSort) # toString(comperator) THEN sorted.arr
        ELSE arrAfterProof(sorted.arr)

\* ---------------------------------------------------- shuffle generator
\* the random draws of one shuffle of n items: js[i] = floor(random * (i + 1))
Rolls(n) == {js \in [1..(n - 1) -> 0..(n - 1)] : \A i \in 1..(n - 1) : js[i] <= i}

\* Fisher-Yates, i running from arr.length - 1 down to 1
RECURSIVE shuffleFrom(_, _, _)
shuffleFrom(arr, i, js) ==
    IF i <= 0 THEN arr ELSE shuffleFrom(swapAt(arr, i, js[i]), i - 1, js)

\* shuffle that copies arr[j] to arr[i] instead of swapping the two
RECURSIVE shuffleCopyFrom(_, _, _)
shuffleCopyFrom(arr, i, js) ==
    IF i <= 0 THEN arr
    ELSE shuffleCopyFrom([arr EXCEPT ![i + 1] = arr[js[i] + 1]], i - 1, js)

shuffleCopy(arr, js) == shuffleCopyFrom(arr, Len(arr) - 1, js)

shuffle(arr, js) == shuffleFrom(arr, Len(arr) - 1, js)

\* -------------------------------------------------------------- errors
NoError == ""
ErrInteger == "the puzzle shape must contain only integer values"
ErrShape == "the puzzle shape is faulty"
ErrDistance == "the puzzle tile distances are faulty"
ErrNoShuffle == "the provided fixed shuffle array does not contain a shuffle"
ErrIncomplete == "the provided fixed shuffle array does not contain all required tile indices"
ErrUnsolvable == "the provided fixed shuffle array does not provide a solvable shuffle"

\* an optional value is the empty sequence (undefined) or a one-element sequence
Undefined == <<>>
Some(v) == <<v>>

\* gamePlay() called without a tile
NoTile == 0 - 1

\* ------------------------------------------------- the game object (this)
\* The handlers below are functions from the object before the call to the
\* object after it.  Fields: the SPGame fields, the engine registration of
\* the puzzle and of the void tile (Entity.alive), the pending
\* MoveTransformComponent with its completion callback (animation), the
\* hook invocations made by the running operation (hooks) and the error it
\* throws (error).

invoke(this, hook) ==
    [this EXCEPT !.hooks = Append(@, hook),
                 !.hookState = Append(@, [isRunning |-> this.isRunning,
                                          lockedInput |-> this.lockedInput])]

voidTileVisibility(this, enable) ==
    IF enable /\ ~this.voidAlive THEN [this EXCEPT !.voidAlive = TRUE]
    ELSE IF ~enable /\ this.voidAlive THEN [this EXCEPT !.voidAlive = FALSE]
    ELSE this

\* the SPTile component after repositionTile(tile, newGridIndex)
repositionTile(tileComp, newGridIndex, shape) ==
    [tileComp EXCEPT !.gridCurrent = toGrid(newGridIndex, shape)]

\* the Transform position init gives a tile on cell grid, as <<x, z>> (y
\* stays 0); the position of setup.tileTransform, added to every tile alike,
\* is the origin of the coordinates
tileSortPos(grid, dist) == <<0 - grid[2] * dist[2], grid[1] * dist[1]>>

\* the Transform position repositionTile leaves a tile with: it adds the
\* vector from the old cell to the new one to the position the tile has
repositionedFrom(pos, gridCurrent, newGridCurrent, dist) ==
    LET vec == <<(newGridCurrent[1] - gridCurrent[1]) * dist[1],
                 (newGridCurrent[2] - gridCurrent[2]) * dist[2]>>
    IN  <<pos[1] + (0 - vec[2]), pos[2] + vec[1]>>

checkTilePosition(tileComp) ==
    /\ tileComp.gridCurrent[1] = tileComp.gridOrigin[1]
    /\ tileComp.gridCurrent[2] = tileComp.gridOrigin[2]

\* a verdict that looks at the void tile only
checkResultVoidOnly(this) ==
    checkTilePosition(this.tiles[this.tileCnt - 1])

\* the verdict of checkAndFinish: the void tile and tiles.slice(0, tileCnt - 2)
checkResult(this) ==
    /\ checkTilePosition(this.tiles[this.tileCnt - 1])
    /\ \A n \in 0..(this.tileCnt - 3) : checkTilePosition(this.tiles[n])

\* checkAndFinish that leaves isRunning as it is
checkAndFinishKeepsRunning(this) ==
    IF checkResult(this)
    THEN voidTileVisibility(invoke(this, "finish"), TRUE)
    ELSE this

\* checkAndFinish that invokes finish after it has stopped the game
checkAndFinishLate(this) ==
    IF checkResult(this)
    THEN invoke([voidTileVisibility(this, TRUE) EXCEPT !.isRunning = FALSE], "finish")
    ELSE this

checkAndFinish(this) ==
    IF checkResult(this)
    THEN [voidTileVisibility(invoke(this, "finish"), TRUE) EXCEPT !.isRunning = FALSE]
    ELSE this

\* setfixedShuffleArr without the check of the sorted array
setfixedShuffleArrNoCompleteCheck(this, a) ==
    IF toString(a) = toString(identityArr(this.tileCnt))
    THEN [this EXCEPT !.error = ErrNoShuffle]
    ELSE IF ~permutationProof(a, this.puzzleShape)
    THEN [this EXCEPT !.error = ErrUnsolvable]
    ELSE [this EXCEPT !.fixedShuffleArr = Some(a)]

\* setfixedShuffleArr without the solvability check
setfixedShuffleArrNoProof(this, a) ==
    IF toString(a) = toString(identityArr(this.tileCnt))
    THEN [this EXCEPT !.error = ErrNoShuffle]
    ELSE IF toString(sortArr(a)) # toString(identityArr(this.tileCnt))
    THEN [this EXCEPT !.error = ErrIncomplete]
    ELSE [this EXCEPT !.fixedShuffleArr = Some(a)]

\* setfixedShuffleArr without the comparison with the comperator
setfixedShuffleArrNoShuffleCheck(this, a) ==
    IF toString(sortArr(a)) # toString(identityArr(this.tileCnt))
    THEN [this EXCEPT !.error = ErrIncomplete]
    ELSE IF ~permutationProof(a, this.puzzleShape)
    THEN [this EXCEPT !.error = ErrUnsolvable]
    ELSE [this EXCEPT !.fixedShuffleArr = Some(a)]

setfixedShuffleArr(this, a) ==
    LET comperator == identityArr(this.tileCnt)
        sorted == cloneAndSort(a)
        arr == sorted.arr
        arrSort == sorted.arrSort
    IN  IF toString(arr) = toString(comperator)
        THEN [this EXCEPT !.error = ErrNoShuffle]
        ELSE IF toString(arrSort) # toString(comperator)
        THEN [this EXCEPT !.error = ErrIncomplete]
        ELSE IF ~permutationProof(arr, this.puzzleShape)
        THEN [this EXCEPT !.error = ErrUnsolvable]
        ELSE [this EXCEPT !.fixedShuffleArr = Some(arrAfterProof(arr))]

\* getShuffleArray that does not look at the fixed shuffle
getShuffleArrayRandomOnly(this, js) ==
    shuffle(identityArr(this.tileCnt), IF js = <<>> THEN [i \in 1..(this.tileCnt - 1) |-> 0] ELSE js)

\* js: the random draws of the loop iteration whose shuffle is accepted
getShuffleArray(this, js) ==
    IF this.fixedShuffleArr # Undefined
    THEN this.fixedShuffleArr[1]
    ELSE shuffle(identityArr(this.tileCnt), js)

\* gameTurn that does not lock the input
gameTurnNoLock(this, t) ==
    [this EXCEPT !.animation = Some([t |-> t,
                                     tGrid |-> this.tiles[t].gridCurrent,
                                     vtGrid |-> this.tiles[this.tileCnt - 1].gridCurrent])]

gameTurn(this, t) ==
    [this EXCEPT !.lockedInput = TRUE,
                 !.animation = Some([t |-> t,
                                     tGrid |-> this.tiles[t].gridCurrent,
                                     vtGrid |-> this.tiles[this.tileCnt - 1].gridCurrent])]

\* a callback that leaves the input locked
onFinishCallbackKeepsLock(this) ==
    LET t == this.animation[1].t
        vt == this.tileCnt - 1
        moved == [this EXCEPT !.tiles[t].gridCurrent = this.tiles[vt].gridCurrent,
                              !.tiles[vt].gridCurrent = this.tiles[t].gridCurrent,
                              !.animation = Undefined]
    IN  checkAndFinish(moved)

\* a callback that forgets to move the void tile
onFinishCallbackKeepsVoid(this) ==
    LET t == this.animation[1].t
        vt == this.tileCnt - 1
        moved == [this EXCEPT !.tiles[t].gridCurrent = this.tiles[vt].gridCurrent,
                              !.animation = Undefined]
    IN  [checkAndFinish(moved) EXCEPT !.lockedInput = FALSE]

\* the completion callback of the MoveTransformComponent
onFinishCallback(this) ==
    LET t == this.animation[1].t
        vt == this.tileCnt - 1
        tTemp == this.tiles[t].gridCurrent
        swapped == [this EXCEPT !.tiles[t].gridCurrent = this.tiles[vt].gridCurrent,
                                !.tiles[vt].gridCurrent = tTemp,
                                !.animation = Undefined]
    IN  [checkAndFinish(swapped) EXCEPT !.lockedInput = FALSE]

\* gamePlay that also moves a tile that touches the void tile at a corner
gamePlayAcceptsDiagonal(this, tile, js) ==
    LET voidTile == this.tileCnt - 1
    IN  IF ~this.isRunning
        THEN LET started == voidTileVisibility(invoke(this, "start"), FALSE)
                 sArr == getShuffleArray(started, js)
             IN  [started EXCEPT
                    !.tiles = [n \in DOMAIN started.tiles |->
                                 repositionTile(started.tiles[n],
                                                indexOf(sArr, started.tiles[n].index),
                                                started.puzzleShape)],
                    !.isRunning = TRUE]
        ELSE IF ~this.lockedInput /\ tile # NoTile
        THEN LET vec == subtract(this.tiles[voidTile].gridCurrent, this.tiles[tile].gridCurrent)
             IN  IF lengthSquared(vec) <= 2
                 THEN gameTurn(invoke(this, "willMove"), tile)
                 ELSE invoke(this, "willStall")
        ELSE this

\* gamePlay that does not look at lockedInput
gamePlayIgnoresLock(this, tile, js) ==
    LET voidTile == this.tileCnt - 1
    IN  IF ~this.isRunning
        THEN LET started == voidTileVisibility(invoke(this, "start"), FALSE)
                 sArr == getShuffleArray(started, js)
             IN  [started EXCEPT
                    !.tiles = [n \in DOMAIN started.tiles |->
                                 repositionTile(started.tiles[n],
                                                indexOf(sArr, started.tiles[n].index),
                                                started.puzzleShape)],
                    !.isRunning = TRUE]
        ELSE IF tile # NoTile
        THEN LET vec == subtract(this.tiles[voidTile].gridCurrent, this.tiles[tile].gridCurrent)
             IN  IF lengthSquared(vec) = 1
                 THEN gameTurn(invoke(this, "willMove"), tile)
                 ELSE invoke(this, "willStall")
        ELSE this

gamePlay(this, tile, js) ==
    LET voidTile == this.tileCnt - 1
    IN  IF ~this.isRunning
        THEN LET started == voidTileVisibility(invoke(this, "start"), FALSE)
                 sArr == getShuffleArray(started, js)
             IN  [started EXCEPT
                    !.tiles = [n \in DOMAIN started.tiles |->
                                 repositionTile(started.tiles[n],
                                                indexOf(sArr, started.tiles[n].index),
                                                started.puzzleShape)],
                    !.isRunning = TRUE]
        ELSE IF ~this.lockedInput /\ tile # NoTile
        THEN LET vec == subtract(this.tiles[voidTile].gridCurrent, this.tiles[tile].gridCurrent)
             IN  IF lengthSquared(vec) = 1
                 THEN gameTurn(invoke(this, "willMove"), tile)
                 ELSE invoke(this, "willStall")
        ELSE this

\* resolve that forgets the stored fixed shuffle
resolveClearsFixed(this) ==
    LET stopped == [this EXCEPT !.isRunning = FALSE, !.fixedShuffleArr = Undefined]
        placed == [stopped EXCEPT
                     !.tiles = [n \in DOMAIN stopped.tiles |->
                                  repositionTile(stopped.tiles[n], stopped.tiles[n].index,
                                                 stopped.puzzleShape)]]
    IN  voidTileVisibility(placed, TRUE)

\* resolve that leaves the void tile hidden
resolveKeepsVoidHidden(this) ==
    LET stopped == [this EXCEPT !.isRunning = FALSE]
    IN  [stopped EXCEPT
           !.tiles = [n \in DOMAIN stopped.tiles |->
                        repositionTile(stopped.tiles[n], stopped.tiles[n].index,
                                       stopped.puzzleShape)]]

resolve(this) ==
    LET stopped == [this EXCEPT !.isRunning = FALSE]
        placed == [stopped EXCEPT
                     !.tiles = [n \in DOMAIN stopped.tiles |->
                                  repositionTile(stopped.tiles[n], stopped.tiles[n].index,
                                                 stopped.puzzleShape)]]
    IN  voidTileVisibility(placed, TRUE)

\* reShuffle that keeps the stored fixed shuffle when called without one
reShuffleKeepsFixed(this, fixedArg, js) ==
    LET stopped == [this EXCEPT !.isRunning = FALSE]
        checked == IF fixedArg # Undefined
                   THEN setfixedShuffleArr(stopped, fixedArg[1])
                   ELSE stopped
    IN  IF checked.error # NoError THEN checked
        ELSE gamePlay(checked, NoTile,
                      IF checked.fixedShuffleArr # Undefined /\ js = <<>>
                      THEN [i \in 1..(this.tileCnt - 1) |-> i] ELSE js)

\* fixedArg: Undefined or Some(array)
reShuffle(this, fixedArg, js) ==
    LET stopped == [this EXCEPT !.isRunning = FALSE]
        checked == IF fixedArg # Undefined
                   THEN setfixedShuffleArr(stopped, fixedArg[1])
                   ELSE [stopped EXCEPT !.fixedShuffleArr = Undefined]
    IN  IF checked.error # NoError THEN checked ELSE gamePlay(checked, NoTile, js)

\* engine.addEntity(puzzle): the entity and its children become alive
addEntity(this) == [this EXCEPT !.puzzleAlive = TRUE, !.voidAlive = TRUE]

\* init without the check of the tile distances
initNoDistanceCheck(setup, js) ==
    LET x2 == setup.puzzleShape[1]
        y2 == setup.puzzleShape[2]
        shape == <<x2 \div 2, y2 \div 2>>
        cnt == shape[1] * shape[2]
        blank == [phase |-> "failed", puzzleShape |-> <<0, 0>>, tileDist |-> <<0, 0>>,
                  tileCnt |-> 0, tiles |-> <<>>, isRunning |-> FALSE, lockedInput |-> FALSE,
                  fixedShuffleArr |-> Undefined, puzzleAlive |-> FALSE, voidAlive |-> FALSE,
                  animation |-> Undefined, hooks |-> <<>>, hookState |-> <<>>,
                  error |-> NoError]
    IN  IF (x2 + y2) % 2 # 0 THEN [blank EXCEPT !.error = ErrInteger]
        ELSE IF x2 < 4 \/ y2 < 4 THEN [blank EXCEPT !.error = ErrShape]
        ELSE IF x2 % 2 # 0
        THEN [blank EXCEPT !.phase = "fractional"]
        ELSE LET sized == [blank EXCEPT !.puzzleShape = shape,
                                        !.tileDist = setup.tileDistance,
                                        !.tileCnt = cnt]
                 fixed == IF setup.fixedShuffle # Undefined
                          THEN setfixedShuffleArr(sized, setup.fixedShuffle[1])
                          ELSE sized
                 built == [fixed EXCEPT
                             !.phase = "ready",
                             !.tiles = [n \in 0..(cnt - 1) |->
                                          [index |-> n,
                                           gridOrigin |-> toGrid(n, shape),
                                           gridCurrent |-> toGrid(n, shape)]]]
                 started == IF setup.startShuffle THEN gamePlay(built, NoTile, js) ELSE built
             IN  IF fixed.error # NoError THEN fixed
                 ELSE IF setup.addToEngine THEN addEntity(started) ELSE started

\* init that does not look at startShuffle
initNeverStarts(setup, js) ==
    LET x2 == setup.puzzleShape[1]
        y2 == setup.puzzleShape[2]
        shape == <<x2 \div 2, y2 \div 2>>
        cnt == shape[1] * shape[2]
        blank == [phase |-> "failed", puzzleShape |-> <<0, 0>>, tileDist |-> <<0, 0>>,
                  tileCnt |-> 0, tiles |-> <<>>, isRunning |-> FALSE, lockedInput |-> FALSE,
                  fixedShuffleArr |-> Undefined, puzzleAlive |-> FALSE, voidAlive |-> FALSE,
                  animation |-> Undefined, hooks |-> <<>>, hookState |-> <<>>,
                  error |-> NoError]
    IN  IF (x2 + y2) % 2 # 0 THEN [blank EXCEPT !.error = ErrInteger]
        ELSE IF x2 < 4 \/ y2 < 4 THEN [blank EXCEPT !.error = ErrShape]
        ELSE IF setup.tileDistance[1] <= 0 \/ setup.tileDistance[2] <= 0
        THEN [blank EXCEPT !.error = ErrDistance]
        ELSE IF x2 % 2 # 0
        THEN [blank EXCEPT !.phase = "fractional"]
        ELSE LET sized == [blank EXCEPT !.puzzleShape = shape,
                                        !.tileDist = setup.tileDistance,
                                        !.tileCnt = cnt]
                 fixed == IF setup.fixedShuffle # Undefined
                          THEN setfixedShuffleArr(sized, setup.fixedShuffle[1])
                          ELSE sized
                 built == [fixed EXCEPT
                             !.phase = "ready",
                             !.tiles = [n \in 0..(cnt - 1) |->
                                          [index |-> n,
                                           gridOrigin |-> toGrid(n, shape),
                                           gridCurrent |-> toGrid(n, shape)]]]
                 started == built
             IN  IF fixed.error # NoError THEN fixed
                 ELSE IF setup.addToEngine THEN addEntity(started) ELSE started

\* setup.puzzleShape is given in halves, so that 5 stands for 2.5; the
\* constructed object holds whole numbers.  A shape of two fractional values
\* that passes the checks leaves the model (phase "fractional").
init(setup, js) ==
    LET x2 == setup.puzzleShape[1]
        y2 == setup.puzzleShape[2]
        shape == <<x2 \div 2, y2 \div 2>>
        cnt == shape[1] * shape[2]
        blank == [phase |-> "failed", puzzleShape |-> <<0, 0>>, tileDist |-> <<0, 0>>,
                  tileCnt |-> 0, tiles |-> <<>>, isRunning |-> FALSE, lockedInput |-> FALSE,
                  fixedShuffleArr |-> Undefined, puzzleAlive |-> FALSE, voidAlive |-> FALSE,
                  animation |-> Undefined, hooks |-> <<>>, hookState |-> <<>>,
                  error |-> NoError]
    IN  IF (x2 + y2) % 2 # 0 THEN [blank EXCEPT !.error = ErrInteger]
        ELSE IF x2 < 4 \/ y2 < 4 THEN [blank EXCEPT !.error = ErrShape]
        ELSE IF setup.tileDistance[1] <= 0 \/ setup.tileDistance[2] <= 0
        THEN [blank EXCEPT !.error = ErrDistance]
        ELSE IF x2 % 2 # 0
        THEN [blank EXCEPT !.phase = "fractional"]
        ELSE LET sized == [blank EXCEPT !.puzzleShape = shape,
                                        !.tileDist = setup.tileDistance,
                                        !.tileCnt = cnt]
                 fixed == IF setup.fixedShuffle # Undefined
                          THEN setfixedShuffleArr(sized, setup.fixedShuffle[1])
                          ELSE sized
                 built == [fixed EXCEPT
                             !.phase = "ready",
                             !.tiles = [n \in 0..(cnt - 1) |->
                                          [index |-> n,
                                           gridOrigin |-> toGrid(n, shape),
                                           gridCurrent |-> toGrid(n, shape)]]]
                 started == IF setup.startShuffle THEN gamePlay(built, NoTile, js) ELSE built
             IN  IF fixed.error # NoError THEN fixed
                 ELSE IF setup.addToEngine THEN addEntity(started) ELSE started

ProofShapes ==
    {s \in (2..MaxSide) \X (2..MaxSide) : s[1] * s[2] <= MaxCells}

\* <<shape, arr>> for every arr reachable from the solved arrangement
Reachable ==
    LET R == UNION {{<<s, a>> : a \in Closure({identityArr(s[1] * s[2])}, {identityArr(s[1] * s[2])}, s)} :
                    s \in ProofShapes}
    IN  IF Cardinality(R) > 0 THEN R ELSE {}

\* ---------------------------------------------------------------- inputs
GameShapes == {s \in (2..MaxTiles) \X (2..MaxTiles) : s[1] * s[2] <= MaxTiles}

\* shapes in halves: the whole ones within MaxTiles, too small ones (down to
\* -1), fractional ones
SetupShapes ==
    {h \in ((0 - 2)..MaxTiles) \X ((0 - 2)..MaxTiles) :
        (h[1] % 2 = 0 /\ h[2] % 2 = 0 /\ h[1] >= 4 /\ h[2] >= 4) => h[1] * h[2] <= 4 * MaxTiles}

SetupDistances == {<<1, 1>>, <<0, 1>>, <<1, 0 - 1>>}

\* the fixed shuffles a caller tries with n tiles: two solvable ones (the
\* last two tiles swapped, the first three rotated) and the comperator
FixedInputs(n) ==
    {swapAt(identityArr(n), n - 2, n - 1),
     swapAt(swapAt(identityArr(n), 0, 1), 1, 2),
     identityArr(n)}

\* the fixed shuffles tried with a shape: for a shape that is rejected the
\* array is never read
SetupFixed(h) ==
    LET n == IF h[1] % 2 = 0 /\ h[2] % 2 = 0 /\ h[1] >= 4 /\ h[2] >= 4
             THEN (h[1] \div 2) * (h[2] \div 2) ELSE 4
    IN  {Undefined} \cup {Some(a) : a \in FixedInputs(n)}

\* no setup: the constructor is not the last operation
NoSetup ==
    [puzzleShape |-> <<0, 0>>, tileDistance |-> <<0, 0>>, fixedShuffle |-> Undefined,
     startShuffle |-> FALSE, addToEngine |-> FALSE]

Setups ==
    UNION {{[puzzleShape |-> h, tileDistance |-> d, fixedShuffle |-> f,
             startShuffle |-> ss, addToEngine |-> ae] :
               d \in SetupDistances, f \in SetupFixed(h), ss \in BOOLEAN, ae \in BOOLEAN} :
           h \in SetupShapes}

\* the draws of the accepted loop iteration the game is run with, per shape:
\* those in which at most one step of the shuffle draws j # i; <<shape, js>>
AcceptedRollTable ==
    LET R == UNION {{<<s, js>> : js \in {r \in Rolls(s[1] * s[2]) :
                                     /\ Cardinality({i \in DOMAIN r : r[i] # i}) <= 1
                                     /\ permutationProof(shuffle(identityArr(s[1] * s[2]), r), s)}} :
                    s \in GameShapes}
    IN  IF Cardinality(R) > 0 THEN R ELSE {}

AcceptedRolls(shape) == {q[2] : q \in {p \in AcceptedRollTable : p[1] = shape}}

RandomDraws(needed, shape) == IF needed THEN AcceptedRolls(shape) ELSE {<<>>}

\* ----------------------------------------------------------------- state
VARIABLES
    phase,            \* "new", "ready", "failed" (the constructor threw), "fractional"
    puzzleShape, tileDist, tileCnt, tiles, isRunning, lockedInput, fixedShuffleArr,
    puzzleAlive,      \* the puzzle entity is added to the engine
    voidAlive,        \* voidTile.alive
    animation,        \* the pending MoveTransformComponent of gameTurn
    hooks,            \* the hooks invoked by the last operation, in order
    hookState,        \* isRunning and lockedInput at each of these invocations
    error,            \* the error thrown by the last operation
    lastOp,           \* the last operation
    setup,            \* the setup the constructor was called with, NoSetup after
                      \* any other operation
    arg,              \* the array argument of the last call, as the call leaves it:
                      \* Undefined or Some(array) for a fixed shuffle, the array
                      \* itself for permutationProof
    ret,              \* permutationProof: the return value
    shuffleArr, isSolvable,   \* the locals of getShuffleArray
    pc,               \* position in the function under study
    position,         \* Transform.position of the tiles whose transform is
                      \* followed, by tile index: of no tile in a specification
                      \* that leaves the transforms out
    tOldPos, tNewPos  \* the positions gameTurn cloned for the pending animation

gameVars == <<phase, puzzleShape, tileDist, tileCnt, tiles, isRunning, lockedInput,
              fixedShuffleArr, puzzleAlive, voidAlive, animation, hooks, hookState, error,
              lastOp,
              setup>>
algoVars == <<arg, ret, shuffleArr, isSolvable, pc>>
layoutVars == <<position, tOldPos, tNewPos>>
vars == <<gameVars, algoVars, layoutVars>>

\* the object at the start of an operation
This ==
    [phase |-> phase, puzzleShape |-> puzzleShape, tileDist |-> tileDist, tileCnt |-> tileCnt,
     tiles |-> tiles, isRunning |-> isRunning, lockedInput |-> lockedInput,
     fixedShuffleArr |-> fixedShuffleArr, puzzleAlive |-> puzzleAlive, voidAlive |-> voidAlive,
     animation |-> animation, hooks |-> <<>>, hookState |-> <<>>, error |-> NoError]

BecomesCall(this, op, fixedArg, su) ==
    /\ phase' = this.phase
    /\ puzzleShape' = this.puzzleShape
    /\ tileDist' = this.tileDist
    /\ tileCnt' = this.tileCnt
    /\ tiles' = this.tiles
    /\ isRunning' = this.isRunning
    /\ lockedInput' = this.lockedInput
    /\ fixedShuffleArr' = this.fixedShuffleArr
    /\ puzzleAlive' = this.puzzleAlive
    /\ voidAlive' = this.voidAlive
    /\ animation' = this.animation
    /\ hooks' = this.hooks
    /\ hookState' = this.hookState
    /\ error' = this.error
    /\ lastOp' = op
    /\ arg' = fixedArg
    /\ setup' = su
    /\ UNCHANGED <<ret, shuffleArr, isSolvable, pc>>

BecomesWith(this, op, fixedArg) == BecomesCall(this, op, fixedArg, NoSetup)

Becomes(this, op) == BecomesWith(this, op, Undefined)

\* the position of tile n, <<0, 0>> for a transform that is not followed
positionOf(n) == IF n \in DOMAIN position THEN position[n] ELSE <<0, 0>>

\* the positions after an operation that moves tiles with repositionTile
\* only, at most once per tile: from the cell before to the cell after
Repositioned(after) ==
    [n \in DOMAIN position |->
        repositionedFrom(position[n], tiles[n].gridCurrent, after.tiles[n].gridCurrent,
                         after.tileDist)]

NoLayout ==
    /\ position = <<>>
    /\ tOldPos = <<0, 0>>
    /\ tNewPos = <<0, 0>>

AlgoIdle ==
    /\ arg = <<>>
    /\ ret = FALSE
    /\ shuffleArr = <<>>
    /\ isSolvable = FALSE
    /\ pc = "idle"

Init ==
    /\ phase = "new"
    /\ puzzleShape = <<0, 0>>
    /\ tileDist = <<0, 0>>
    /\ tileCnt = 0
    /\ tiles = <<>>
    /\ isRunning = FALSE
    /\ lockedInput = FALSE
    /\ fixedShuffleArr = Undefined
    /\ puzzleAlive = FALSE
    /\ voidAlive = FALSE
    /\ animation = Undefined
    /\ hooks = <<>>
    /\ hookState = <<>>
    /\ error = NoError
    /\ lastOp = "new"
    /\ setup = NoSetup
    /\ AlgoIdle
    /\ NoLayout

\* ------------------------------------------------------------- operations
\* new SPGame(setup, actions), the transforms of the tiles in ids followed:
\* a tile is placed on its origin cell and moved by the repositionTile of a
\* start shuffle
ConstructFollowing(su, ids) ==
    /\ phase = "new"
    /\ LET whole == <<su.puzzleShape[1] \div 2, su.puzzleShape[2] \div 2>>
           random == /\ su.startShuffle
                     /\ su.fixedShuffle = Undefined
                     /\ whole \in GameShapes
                     /\ su.puzzleShape[1] % 2 = 0 /\ su.puzzleShape[2] % 2 = 0
       IN  \E js \in RandomDraws(random, whole) :
              LET built == init(su, js)
                  validated == \/ built.phase = "ready"
                               \/ built.error \in {ErrNoShuffle, ErrIncomplete, ErrUnsolvable}
                  fixedAfter == IF su.fixedShuffle # Undefined /\ validated
                                THEN Some(arrAfterSetfixed(whole[1] * whole[2],
                                                           su.fixedShuffle[1]))
                                ELSE su.fixedShuffle
              IN  /\ BecomesCall(built, "init", fixedAfter, su)
                  /\ position' = [n \in ids \cap DOMAIN built.tiles |->
                        repositionedFrom(
                            tileSortPos(built.tiles[n].gridOrigin, built.tileDist),
                            built.tiles[n].gridOrigin, built.tiles[n].gridCurrent,
                            built.tileDist)]
                  /\ UNCHANGED <<tOldPos, tNewPos>>

\* new SPGame(setup, actions), the transforms left out
ConstructWith(su) == ConstructFollowing(su, {})

Construct == \E su \in Setups : ConstructWith(su)

\* a pointer-down event on tile t (tileParentClick, tileChildClick)
Click(t) ==
    /\ phase = "ready"
    /\ IF t = tileCnt - 1 THEN voidAlive ELSE puzzleAlive
    /\ \E js \in RandomDraws(~isRunning /\ fixedShuffleArr = Undefined, puzzleShape) :
         LET after == gamePlay(This, t, js)
         IN  /\ Becomes(after, "click")
             /\ position' = Repositioned(after)
             /\ IF after.animation # animation
                THEN tOldPos' = positionOf(t) /\ tNewPos' = positionOf(tileCnt - 1)
                ELSE UNCHANGED <<tOldPos, tNewPos>>

\* the animation of gameTurn ends and its callback runs
Callback ==
    /\ phase = "ready"
    /\ animation # Undefined
    /\ Becomes(onFinishCallback(This), "callback")
    /\ position' = [n \in DOMAIN position |->
                        IF n = animation[1].t THEN tNewPos
                        ELSE IF n = tileCnt - 1 THEN tOldPos
                        ELSE position[n]]
    /\ tOldPos' = <<0, 0>>
    /\ tNewPos' = <<0, 0>>

ReShuffle(fixedArg) ==
    /\ phase = "ready"
    /\ \E js \in RandomDraws(fixedArg = Undefined, puzzleShape) :
         LET after == reShuffle(This, fixedArg, js)
             fixedAfter == IF fixedArg # Undefined
                           THEN Some(arrAfterSetfixed(tileCnt, fixedArg[1]))
                           ELSE fixedArg
         IN  /\ BecomesWith(after, "reShuffle", fixedAfter)
             /\ position' = Repositioned(after)
             /\ UNCHANGED <<tOldPos, tNewPos>>

Resolve ==
    /\ phase = "ready"
    /\ Becomes(resolve(This), "resolve")
    /\ position' = Repositioned(resolve(This))
    /\ UNCHANGED <<tOldPos, tNewPos>>

\* the caller adds the puzzle of a setup with addToEngine = false to the engine
AddEntity ==
    /\ phase = "ready"
    /\ ~puzzleAlive
    /\ Becomes(addEntity(This), "addEntity")
    /\ UNCHANGED layoutVars

ReShuffleArgs ==
    IF phase = "ready" THEN {Undefined} \cup {Some(a) : a \in FixedInputs(tileCnt)} ELSE {}

Next ==
    \/ Construct
    \/ \E t \in 0..(tileCnt - 1) : Click(t)
    \/ Callback
    \/ \E f \in ReShuffleArgs : ReShuffle(f)
    \/ Resolve
    \/ AddEntity

Spec == Init /\ [][Next]_vars

\* the game of a puzzle of at most MaxLiveTiles tiles, with an engine that
\* runs every pending animation to its end: the MoveTransformComponent of
\* gameTurn lasts 0.2 s and then calls back
LiveSetups ==
    {su \in Setups : su.puzzleShape[1] * su.puzzleShape[2] <= 4 * MaxLiveTiles}

ConstructLive == \E su \in LiveSetups : ConstructWith(su)

NextLive ==
    \/ ConstructLive
    \/ \E t \in 0..(tileCnt - 1) : Click(t)
    \/ Callback
    \/ \E f \in ReShuffleArgs : ReShuffle(f)
    \/ Resolve
    \/ AddEntity

SpecLive == Init /\ [][NextLive]_vars /\ WF_vars(Callback)

\* the game of a puzzle of at most MaxLiveTiles tiles with the transforms of
\* all its tiles followed, as long as the distances between the tiles'
\* positions and the places of their cells add up to at most MaxDrift tile
\* distances
abs(x) == IF x < 0 THEN 0 - x ELSE x

RECURSIVE DriftBelow(_)
DriftBelow(k) ==
    IF k <= 0 THEN 0
    ELSE LET place == tileSortPos(tiles[k - 1].gridCurrent, tileDist)
         IN  DriftBelow(k - 1)
             + abs(position[k - 1][1] - place[1]) \div tileDist[2]
             + abs(position[k - 1][2] - place[2]) \div tileDist[1]

DriftBounded == DriftBelow(Cardinality(DOMAIN position)) <= MaxDrift

ConstructLayout == \E su \in LiveSetups : ConstructFollowing(su, 0..(MaxLiveTiles - 1))

NextLayout ==
    \/ ConstructLayout
    \/ \E t \in 0..(tileCnt - 1) : Click(t) /\ DriftBounded'
    \/ Callback /\ DriftBounded'
    \/ \E f \in ReShuffleArgs : ReShuffle(f) /\ DriftBounded'
    \/ Resolve /\ DriftBounded'
    \/ AddEntity

SpecLayout == Init /\ [][NextLayout]_vars

\* ------------------------------------------- the solvability proof, alone
GameIdle ==
    /\ phase = "new"
    /\ tileDist = <<0, 0>>
    /\ tiles = <<>>
    /\ isRunning = FALSE
    /\ lockedInput = FALSE
    /\ fixedShuffleArr = Undefined
    /\ puzzleAlive = FALSE
    /\ voidAlive = FALSE
    /\ animation = Undefined
    /\ hooks = <<>>
    /\ hookState = <<>>
    /\ error = NoError
    /\ lastOp = "new"
    /\ setup = NoSetup
    /\ NoLayout

UnchangedGame ==
    UNCHANGED <<phase, tileDist, tiles, isRunning, lockedInput, fixedShuffleArr,
                puzzleAlive, voidAlive, animation, hooks, hookState, error, lastOp,
                   setup,
                layoutVars>>

InitProof ==
    /\ GameIdle
    /\ AlgoIdle
    /\ puzzleShape = <<0, 0>>
    /\ tileCnt = 0

ChooseProof ==
    /\ pc = "idle"
    /\ puzzleShape' \in ProofShapes
    /\ tileCnt' = puzzleShape'[1] * puzzleShape'[2]
    /\ arg' \in Permutations0(tileCnt')
    /\ pc' = "call"
    /\ UNCHANGED <<ret, shuffleArr, isSolvable>>
    /\ UnchangedGame

CallProof ==
    /\ pc = "call"
    /\ ret' = permutationProof(arg, puzzleShape)
    /\ arg' = arrAfterProof(arg)
    /\ pc' = "done"
    /\ UNCHANGED <<puzzleShape, tileCnt, shuffleArr, isSolvable>>
    /\ UnchangedGame

NextProof == ChooseProof \/ CallProof
SpecProof == InitProof /\ [][NextProof]_vars

\* ------------------------------------------- the shuffle loop, step by step
\* getShuffleArray in random mode (no fixed shuffle is set)
EnterShuffle ==
    /\ pc = "idle"
    /\ puzzleShape' \in GameShapes
    /\ tileCnt' = puzzleShape'[1] * puzzleShape'[2]
    /\ isSolvable' = FALSE
    /\ shuffleArr' = <<>>
    /\ pc' = "while"
    /\ UNCHANGED <<arg, ret>>
    /\ UnchangedGame

\* one iteration: refill, shuffle, proof
ShuffleIteration ==
    /\ pc = "while"
    /\ ~isSolvable
    /\ \E js \in Rolls(tileCnt) :
         /\ shuffleArr' = shuffle(identityArr(tileCnt), js)
         /\ isSolvable' = permutationProof(shuffleArr', puzzleShape)
    /\ UNCHANGED <<puzzleShape, tileCnt, arg, ret, pc>>
    /\ UnchangedGame

ReturnShuffle ==
    /\ pc = "while"
    /\ isSolvable
    /\ pc' = "returned"
    /\ UNCHANGED <<puzzleShape, tileCnt, arg, ret, shuffleArr, isSolvable>>
    /\ UnchangedGame

NextShuffle == EnterShuffle \/ ShuffleIteration \/ ReturnShuffle
SpecShuffle == InitProof /\ [][NextShuffle]_vars

\* the loop with a fair random source: an iteration whose shuffle the
\* checker accepts is not put off forever, and the loop is left once
\* isSolvable is set
\* the shuffles of the identity the checker accepts, per shape
AcceptedShuffles ==
    LET A == UNION {{<<s, a>> : a \in {b \in {shuffle(identityArr(s[1] * s[2]), js) :
                                                js \in Rolls(s[1] * s[2])} :
                                          permutationProof(b, s)}} :
                    s \in GameShapes}
    IN  IF Cardinality(A) > 0 THEN A ELSE {}

\* the iterations of the loop that draw an accepted shuffle
AcceptedIteration ==
    /\ pc = "while"
    /\ ~isSolvable
    /\ isSolvable' = TRUE
    /\ \E p \in AcceptedShuffles : p[1] = puzzleShape /\ shuffleArr' = p[2]
    /\ UNCHANGED <<puzzleShape, tileCnt, arg, ret, pc>>
    /\ UnchangedGame

SpecShuffleFair ==
    /\ InitProof /\ [][NextShuffle]_vars
    /\ WF_vars(AcceptedIteration)
    /\ WF_vars(ReturnShuffle)

\* ------------------------------------- the fixed shuffle validation, alone
\* the arrays a caller can hand in for n tiles: every ordering of 0 .. n-1,
\* and every ordering with one entry overwritten (by a value of -1 .. n: a
\* duplicate or a value out of range), with its last entry missing, or with
\* one entry too many
FixedCandidates(n) ==
    LET P == Permutations0(n)
    IN  P \cup {[p EXCEPT ![k] = v] : p \in P, k \in 1..n, v \in (0 - 1)..n}
          \cup {SubSeq(p, 1, n - 1) : p \in P}
          \cup {Append(p, v) : p \in P, v \in (0 - 1)..n}

\* the fixed shuffle stored before the call: none, or the last two tiles swapped
StoredBefore(n) == {Undefined, Some(swapAt(identityArr(n), n - 2, n - 1))}

ChooseFixed ==
    /\ pc = "idle"
    /\ puzzleShape' \in GameShapes
    /\ tileCnt' = puzzleShape'[1] * puzzleShape'[2]
    /\ arg' \in {Some(a) : a \in FixedCandidates(tileCnt')}
    /\ fixedShuffleArr' \in StoredBefore(tileCnt')
    /\ pc' = "call"
    /\ UNCHANGED <<ret, shuffleArr, isSolvable>>
    /\ UNCHANGED layoutVars
    /\ UNCHANGED <<phase, tileDist, tiles, isRunning, lockedInput,
                   puzzleAlive, voidAlive, animation, hooks, hookState, error, lastOp,
                   setup>>

\* setfixedShuffleArr(arr) returns or throws
CallFixed ==
    /\ pc = "call"
    /\ LET after == setfixedShuffleArr(This, arg[1])
       IN  /\ error' = after.error
           /\ fixedShuffleArr' = after.fixedShuffleArr
    /\ arg' = Some(arrAfterSetfixed(tileCnt, arg[1]))
    /\ pc' = "done"
    /\ UNCHANGED <<puzzleShape, tileCnt, ret, shuffleArr, isSolvable>>
    /\ UNCHANGED layoutVars
    /\ UNCHANGED <<phase, tileDist, tiles, isRunning, lockedInput,
                   puzzleAlive, voidAlive, animation, hooks, hookState, lastOp, setup>>

NextFixed == ChooseFixed \/ CallFixed
SpecFixed == InitProof /\ [][NextFixed]_vars

\* ------------------------------------------- the grid arithmetic, alone
\* shapes of up to MaxSide rows and columns
GridShapes == (2..MaxSide) \X (2..MaxSide)

\* a tile as init builds it (index n, gridOrigin from n), found on the cell
\* of index p
ChooseGrid ==
    /\ pc = "idle"
    /\ puzzleShape' \in GridShapes
    /\ tileCnt' = puzzleShape'[1] * puzzleShape'[2]
    /\ \E n \in 0..(tileCnt' - 1), p \in 0..(tileCnt' - 1) :
          tiles' = [k \in {n} |-> [index |-> n,
                                   gridOrigin |-> toGrid(n, puzzleShape'),
                                   gridCurrent |-> toGrid(p, puzzleShape')]]
    /\ pc' = "call"
    /\ UNCHANGED <<arg, ret, shuffleArr, isSolvable>>
    /\ UNCHANGED layoutVars
    /\ UNCHANGED <<phase, tileDist, isRunning, lockedInput, fixedShuffleArr,
                   puzzleAlive, voidAlive, animation, hooks, hookState, error, lastOp,
                   setup>>

\* repositionTile(tile, tile.index), as resolve calls it
CallGrid ==
    /\ pc = "call"
    /\ tiles' = [n \in DOMAIN tiles |->
                   repositionTile(tiles[n], tiles[n].index, puzzleShape)]
    /\ pc' = "done"
    /\ UNCHANGED <<puzzleShape, tileCnt, arg, ret, shuffleArr, isSolvable>>
    /\ UNCHANGED layoutVars
    /\ UNCHANGED <<phase, tileDist, isRunning, lockedInput, fixedShuffleArr,
                   puzzleAlive, voidAlive, animation, hooks, hookState, error, lastOp,
                   setup>>

NextGrid == ChooseGrid \/ CallGrid
SpecGrid == InitProof /\ [][NextGrid]_vars

\* ------------------------------------------------------------ vocabulary
VoidTile == tileCnt - 1
TileIds == 0..(tileCnt - 1)
Cells == {toGrid(p, puzzleShape) : p \in TileIds}

IsPermutation0(a, n) ==
    /\ Len(a) = n
    /\ \A v \in 0..(n - 1) : \E i \in 1..n : a[i] = v

\* no two tiles of ts share a cell and every cell holds a tile
Bijective(ts) ==
    /\ \A m, n \in TileIds : ts[m].gridCurrent = ts[n].gridCurrent => m = n
    /\ {ts[n].gridCurrent : n \in TileIds} = Cells

AllAtOrigin(ts) == \A n \in TileIds : ts[n].gridCurrent = ts[n].gridOrigin

\* the arrangement of ts: which tile sits at position p
RECURSIVE ArrangementFrom(_, _)
ArrangementFrom(ts, p) ==
    IF p >= tileCnt THEN <<>>
    ELSE <<CHOOSE n \in TileIds : ts[n].gridCurrent = toGrid(p, puzzleShape)>>
         \o ArrangementFrom(ts, p + 1)

ArrangementOf(ts) == ArrangementFrom(ts, 0)

\* squared length of the grid delta between the void tile and tile t
DeltaSquared(t) == lengthSquared(subtract(tiles[VoidTile].gridCurrent, tiles[t].gridCurrent))

\* ----------------------------------------------------------------- claims

\* C1: in every reachable state of a constructed game the map from tiles to
\* their gridCurrent is a bijection onto the cells of the grid, also when
\* reShuffle or resolve is called while a move is in flight
C1_TilesBijective ==
    phase = "ready" => Bijective(tiles)

\* C1 witness: reShuffle was called while a move was in flight
C1_Witness ==
    /\ phase = "ready"
    /\ lastOp = "reShuffle"
    /\ animation # Undefined
    /\ Bijective(tiles)

\* C2: permutationProof accepts exactly the arrangements reachable from the
\* solved one by moves of the void tile
C2_ProofIffReachable ==
    pc = "done" => (ret <=> <<puzzleShape, arg>> \in Reachable)

\* C2 witness: a shuffled arrangement of a 3 x 2 puzzle was accepted
C2_Witness ==
    /\ pc = "done"
    /\ ret
    /\ puzzleShape = <<3, 2>>
    /\ arg # identityArr(6)
    /\ <<puzzleShape, arg>> \in Reachable

\* C3: what getShuffleArray returns in random mode is a permutation of
\* 0 .. tileCnt - 1 that permutationProof accepts
C3_ShuffleReturnsSolvablePermutation ==
    pc = "returned" =>
        /\ IsPermutation0(shuffleArr, tileCnt)
        /\ permutationProof(shuffleArr, puzzleShape)

\* C3 witness: the loop returned a shuffled arrangement
C3_Witness ==
    /\ pc = "returned"
    /\ shuffleArr # identityArr(tileCnt)
    /\ IsPermutation0(shuffleArr, tileCnt)

\* C4: with the game running and input unlocked, a click on tile t starts a
\* move exactly if the squared grid delta to the void tile is 1; the click
\* then invokes willMove once, locks the input and leaves every gridCurrent
\* as it is; a pending move goes away only by its callback
C4_ClickAcceptedIffAdjacent ==
    [][/\ (lastOp' = "click" /\ isRunning /\ ~lockedInput) =>
            \A t \in TileIds : Click(t) =>
                /\ (animation' # Undefined) <=> (DeltaSquared(t) = 1)
                /\ DeltaSquared(t) = 1 =>
                      /\ hooks' = <<"willMove">>
                      /\ lockedInput'
                      /\ animation'[1].t = t
                      /\ tiles' = tiles
       /\ (animation # Undefined /\ animation' # animation) => lastOp' = "callback"]_vars

\* C4 witness: a click was accepted and its move is in flight
C4_Witness ==
    /\ lastOp = "click"
    /\ hooks = <<"willMove">>
    /\ lockedInput
    /\ animation # Undefined
    /\ lengthSquared(subtract(animation[1].vtGrid, animation[1].tGrid)) = 1

\* C5: the callback of an accepted click puts the clicked tile on the cell
\* the void tile had when the click was accepted and the void tile on the
\* cell the clicked tile had then, moves no other tile and unlocks the input
C5_CommitSwapsClickPositions ==
    [][Callback =>
         /\ tiles'[animation[1].t].gridCurrent = animation[1].vtGrid
         /\ tiles'[VoidTile].gridCurrent = animation[1].tGrid
         /\ \A n \in TileIds \ {animation[1].t, VoidTile} : tiles'[n] = tiles[n]
         /\ ~lockedInput']_vars

\* C6: with the game running and input unlocked, a click on a tile whose
\* squared grid delta to the void tile is not 1 invokes willStall once and
\* changes no gridCurrent, nor isRunning, lockedInput, the void visibility
\* or the pending animation
C6_StallLeavesStateUnchanged ==
    [][(lastOp' = "click" /\ isRunning /\ ~lockedInput) =>
          \A t \in TileIds : (Click(t) /\ DeltaSquared(t) # 1) =>
              /\ hooks' = <<"willStall">>
              /\ tiles' = tiles
              /\ isRunning' = isRunning
              /\ lockedInput' = lockedInput
              /\ voidAlive' = voidAlive
              /\ animation' = animation]_vars

\* C6 witness: a click on a tile away from the void tile has stalled
C6_Witness ==
    /\ lastOp = "click"
    /\ hooks = <<"willStall">>
    /\ isRunning
    /\ ~lockedInput
    /\ \E t \in TileIds \ {VoidTile} : DeltaSquared(t) >= 4

\* C7: while lockedInput is true a click on any tile invokes no hook and
\* changes no gridCurrent and not isRunning
C7_LockedClickIsNoOp ==
    [][(lastOp' = "click" /\ lockedInput) =>
          \A t \in TileIds : Click(t) =>
              /\ hooks' = <<>>
              /\ tiles' = tiles
              /\ isRunning' = isRunning]_vars

\* C8: a callback that leaves every tile on its origin invokes finish, makes
\* the void tile visible and stops the game; one that leaves a tile off its
\* origin does not invoke finish and a running game stays running
C8_CommitFinishesIffSolved ==
    [][Callback =>
         /\ AllAtOrigin(tiles') =>
               /\ hooks' = <<"finish">>
               /\ voidAlive'
               /\ ~isRunning'
         /\ ~AllAtOrigin(tiles') =>
               /\ hooks' = <<>>
               /\ isRunning' = isRunning]_vars

\* C8 witness: the last move solved the puzzle
C8_Witness ==
    /\ lastOp = "callback"
    /\ hooks = <<"finish">>
    /\ AllAtOrigin(tiles)
    /\ ~isRunning
    /\ voidAlive

\* C9: with the game not running, a click on any tile invokes start once,
\* hides the void tile, places the tiles by the arrangement of the shuffle
\* generator (the fixed shuffle, or in random mode an arrangement that can
\* be solved by moves of the void tile), sets isRunning
\* and starts no move: no willMove, no willStall, no animation
C9_ClickStartsGame ==
    [][(lastOp' = "click" /\ ~isRunning) =>
          /\ hooks' = <<"start">>
          /\ ~voidAlive'
          /\ isRunning'
          /\ Bijective(tiles')
          /\ IF fixedShuffleArr # Undefined
             THEN ArrangementOf(tiles') = fixedShuffleArr[1]
             ELSE <<puzzleShape, ArrangementOf(tiles')>> \in Reachable
          /\ animation' = animation
          /\ lockedInput' = lockedInput]_vars

\* C9 witness: a click has started a game with a random shuffle
C9_Witness ==
    /\ lastOp = "click"
    /\ hooks = <<"start">>
    /\ isRunning
    /\ ~voidAlive
    /\ fixedShuffleArr = Undefined
    /\ ~AllAtOrigin(tiles)

\* C10: right after resolve every tile is on its origin, so that the
\* completion check reports completed, the game is not running, the void
\* tile is visible and no hook was invoked
C10_ResolveSolvesSilently ==
    lastOp = "resolve" =>
        /\ AllAtOrigin(tiles)
        /\ checkResult(This)
        /\ ~isRunning
        /\ voidAlive
        /\ hooks = <<>>

\* C10 witness: resolve was called while a move was in flight
C10_Witness ==
    /\ lastOp = "resolve"
    /\ animation # Undefined
    /\ AllAtOrigin(tiles)

\* C11: a reShuffle with a valid fixed arrangement stores it, leaves the game
\* running and puts tile arr[p] on cell toGrid(p) for every p; a reShuffle
\* without an argument clears the stored fixed shuffle, leaves the game
\* running and the tiles in an arrangement that void moves can solve
C11_ReShuffleAppliesArrangement ==
    [][(lastOp' = "reShuffle" /\ error' = NoError) =>
          /\ isRunning'
          /\ Bijective(tiles')
          /\ fixedShuffleArr' = arg'
          /\ IF arg' # Undefined
             THEN ArrangementOf(tiles') = arg'[1]
             ELSE <<puzzleShape, ArrangementOf(tiles')>> \in Reachable]_vars

\* C11 witness: a reShuffle without an argument has cleared a fixed shuffle
\* while a move was in flight
C11_Witness ==
    /\ lastOp = "reShuffle"
    /\ error = NoError
    /\ fixedShuffleArr = Undefined
    /\ animation # Undefined
    /\ isRunning

\* C12: a fixed shuffle equal to the identity arrangement, given to the
\* constructor or to reShuffle, raises the 'does not contain a shuffle' error
\* (the first of the three checks) and leaves the stored fixed shuffle as it was
C12_IdentityIsNoShuffle ==
    [][(/\ lastOp' \in {"init", "reShuffle"}
        /\ tileCnt' > 0
        /\ arg' = Some(identityArr(tileCnt'))) =>
          /\ error' = ErrNoShuffle
          /\ fixedShuffleArr' = fixedShuffleArr]_vars

\* C12 witness: reShuffle was called with the identity while another fixed
\* shuffle was stored
C12_Witness ==
    /\ lastOp = "reShuffle"
    /\ arg = Some(identityArr(tileCnt))
    /\ error = ErrNoShuffle
    /\ fixedShuffleArr # Undefined

\* C13: a fixed shuffle that is not the identity and not a permutation of
\* 0 .. tileCnt-1 raises the 'does not contain all required tile indices'
\* error, whatever the solvability checker would say of it, and leaves the
\* stored fixed shuffle as it was
C13_IncompleteIsRejected ==
    [][(CallFixed /\ arg[1] # identityArr(tileCnt) /\ ~IsPermutation0(arg[1], tileCnt)) =>
          /\ error' = ErrIncomplete
          /\ fixedShuffleArr' = fixedShuffleArr]_vars

\* C13 witness: an array with a duplicate that the solvability checker alone
\* would have accepted was rejected as incomplete, another fixed shuffle
\* being stored
C13_Witness ==
    /\ pc = "done"
    /\ Len(arg[1]) = tileCnt
    /\ ~IsPermutation0(arg[1], tileCnt)
    /\ permutationProof(arg[1], puzzleShape)
    /\ error = ErrIncomplete
    /\ fixedShuffleArr # Undefined

\* C14: a fixed shuffle is stored without an error exactly if it is a
\* permutation of 0 .. tileCnt-1 other than the identity that the
\* solvability checker accepts; a permutation other than the identity that
\* the checker rejects raises the 'does not provide a solvable shuffle' error
C14_AcceptedIffValid ==
    [][CallFixed =>
          LET a == arg[1]
              valid == /\ IsPermutation0(a, tileCnt)
                       /\ a # identityArr(tileCnt)
                       /\ permutationProof(a, puzzleShape)
          IN  /\ (error' = NoError /\ fixedShuffleArr' = arg) <=> valid
              /\ error' = NoError <=> valid
              /\ (/\ IsPermutation0(a, tileCnt)
                  /\ a # identityArr(tileCnt)
                  /\ ~permutationProof(a, puzzleShape)) => error' = ErrUnsolvable]_vars

\* C14 witness: for the shape (2,3) the array [0,1,2,3,5,4] was accepted
C14_Witness ==
    /\ pc = "done"
    /\ puzzleShape = <<2, 3>>
    /\ arg = Some(<<0, 1, 2, 3, 5, 4>>)
    /\ error = NoError
    /\ fixedShuffleArr = arg

\* C15: while a fixed shuffle is stored it changes only by a reShuffle that
\* returns without an error (to the array given, or to none when called
\* without one), and every start of the game that leaves it stored (a click
\* while not running, a reShuffle with that array) puts the tiles in exactly
\* that arrangement
C15_FixedShuffleIsReused ==
    [][fixedShuffleArr # Undefined =>
          /\ fixedShuffleArr' # fixedShuffleArr =>
                /\ lastOp' = "reShuffle"
                /\ error' = NoError
                /\ fixedShuffleArr' = arg'
          /\ ((\E i \in DOMAIN hooks' : hooks'[i] = "start") /\ fixedShuffleArr' = fixedShuffleArr) =>
                /\ ArrangementOf(tiles') = fixedShuffleArr[1]
                /\ isRunning'
          /\ (lastOp' = "click" /\ ~isRunning) =>
                /\ hooks' = <<"start">>
                /\ fixedShuffleArr' = fixedShuffleArr]_vars

\* C15 witness: a click has started a 2x3 game with the stored fixed shuffle
\* that rotates the first three tiles
C15_Witness ==
    /\ lastOp = "click"
    /\ hooks = <<"start">>
    /\ fixedShuffleArr # Undefined
    /\ ArrangementOf(tiles) = fixedShuffleArr[1]
    /\ fixedShuffleArr[1] = swapAt(swapAt(identityArr(tileCnt), 0, 1), 1, 2)
    /\ puzzleShape = <<2, 3>>

\* the errors of the constructor's checks of shape and distance
ConfigErrors == {ErrInteger, ErrShape, ErrDistance}

\* C16: a constructor call with a shape dimension below 2 or with a tile
\* distance component of 0 or less throws and creates no tiles; one with
\* whole rows >= 2 and columns >= 2 and positive distances throws none of
\* the errors of the shape and distance checks
C16_ConstructionValidatesSetup ==
    lastOp = "init" =>
        LET h == setup.puzzleShape
            d == setup.tileDistance
            tooSmall == h[1] < 4 \/ h[2] < 4
            badDistance == d[1] <= 0 \/ d[2] <= 0
            whole == h[1] % 2 = 0 /\ h[2] % 2 = 0
        IN  /\ (tooSmall \/ badDistance) =>
                  /\ error \in ConfigErrors
                  /\ phase = "failed"
                  /\ tiles = <<>>
                  /\ ~puzzleAlive
            /\ (~tooSmall /\ whole /\ ~badDistance) => error \notin ConfigErrors

\* C16 witness: a 2x3 setup with a negative distance component was rejected
C16_Witness ==
    /\ lastOp = "init"
    /\ setup.puzzleShape = <<4, 6>>
    /\ setup.tileDistance = <<1, 0 - 1>>
    /\ error = ErrDistance
    /\ tiles = <<>>

\* C17: a constructor call with a shape of which rows or columns is not a
\* whole number (an odd number of halves) throws one of the two shape errors
C17_FractionalShapeIsRejected ==
    lastOp = "init" =>
        LET h == setup.puzzleShape
            d == setup.tileDistance
        IN  ((h[1] % 2 # 0 \/ h[2] % 2 # 0) /\ d[1] > 0 /\ d[2] > 0) =>
                error \in {ErrInteger, ErrShape}

\* C18: lockedInput is true exactly while a move started by gameTurn waits
\* for its completion callback
C18_LockedIffMoveInFlight ==
    lockedInput <=> animation # Undefined

\* C18 witness: the input is still locked after a resolve during a move
C18_Witness ==
    /\ lastOp = "resolve"
    /\ lockedInput
    /\ animation # Undefined

\* C19: while the game is running and no move is in flight at least one
\* tile is off its origin
C19_RunningIsUnsolved ==
    (isRunning /\ animation = Undefined) => ~AllAtOrigin(tiles)

\* C20: while the game is running the void tile is not alive in the engine
C20_VoidHiddenWhileRunning ==
    isRunning => ~voidAlive

\* C21: after a constructor call that did not throw the input is unlocked;
\* without startShuffle the game is not running, every tile is on its origin
\* and no hook was invoked; with startShuffle the start hook was invoked
\* once, the game is running and the tiles are in the fixed shuffle of the
\* setup, or without one in an arrangement that void moves can solve
C21_ConstructionResult ==
    (lastOp = "init" /\ phase = "ready") =>
        /\ ~lockedInput
        /\ animation = Undefined
        /\ Bijective(tiles)
        /\ IF setup.startShuffle
           THEN /\ hooks = <<"start">>
                /\ isRunning
                /\ IF setup.fixedShuffle # Undefined
                   THEN /\ fixedShuffleArr = setup.fixedShuffle
                        /\ ArrangementOf(tiles) = setup.fixedShuffle[1]
                   ELSE <<puzzleShape, ArrangementOf(tiles)>> \in Reachable
           ELSE /\ hooks = <<>>
                /\ ~isRunning
                /\ AllAtOrigin(tiles)

\* C21 witness: a 2x3 puzzle was constructed with startShuffle and no fixed
\* shuffle, and a tile is off its origin
C21_Witness ==
    /\ lastOp = "init"
    /\ phase = "ready"
    /\ puzzleShape = <<2, 3>>
    /\ setup.startShuffle
    /\ setup.fixedShuffle = Undefined
    /\ isRunning
    /\ ~AllAtOrigin(tiles)

\* C22: for every shape and every index i of it, toGrid(i) = <<row, col>>
\* has row * columns + col = i with row in 0 .. rows-1 and col in
\* 0 .. columns-1, and repositionTile(tile, tile.index) puts the tile on its
\* gridOrigin
C22_ToGridRoundTrip ==
    pc = "done" =>
        \A n \in DOMAIN tiles :
            LET g == toGrid(tiles[n].index, puzzleShape)
            IN  /\ g[1] * puzzleShape[2] + g[2] = tiles[n].index
                /\ g[1] \in 0..(puzzleShape[1] - 1)
                /\ g[2] \in 0..(puzzleShape[2] - 1)
                /\ tiles[n].gridOrigin = g
                /\ tiles[n].gridCurrent = tiles[n].gridOrigin

\* C22 witness: the last tile of a 2x4 puzzle was put back on its origin
C22_Witness ==
    /\ pc = "done"
    /\ puzzleShape = <<2, 4>>
    /\ DOMAIN tiles = {7}
    /\ tiles[7].gridCurrent = <<1, 3>>

\* C23: while a move is in flight no operation invokes willMove, and the
\* pending move stays the same one until its callback runs; after the
\* callback none is pending
C23_OneMoveInFlight ==
    [][animation # Undefined =>
          /\ \A i \in DOMAIN hooks' : hooks'[i] # "willMove"
          /\ IF lastOp' = "callback"
             THEN animation' = Undefined
             ELSE animation' = animation]_vars

\* C23 witness: a click on a tile next to the void tile was ignored while
\* another move was in flight
C23_Witness ==
    /\ lastOp = "click"
    /\ hooks = <<>>
    /\ isRunning
    /\ animation # Undefined
    /\ \E t \in TileIds \ {VoidTile, animation[1].t} : DeltaSquared(t) = 1

\* C24: while the game is running and no move is in flight the solved
\* arrangement can be reached from the live one by moves of the void tile
C24_RunningIsSolvable ==
    (phase = "ready" /\ isRunning /\ animation = Undefined) =>
        <<puzzleShape, ArrangementOf(tiles)>> \in Reachable

\* C25: the verdict of checkAndFinish, which looks at the void tile and at
\* the tiles 0 .. tileCnt-3, is true exactly if all tiles are on their
\* origin: with those on their origin, tile tileCnt-2 is on its origin too
C25_CheckInspectsEnough ==
    phase = "ready" =>
        /\ checkResult(This) <=> AllAtOrigin(tiles)
        /\ checkResult(This) => checkTilePosition(tiles[tileCnt - 2])

\* C25 witness: the callback of a move in a 3x2 puzzle found the inspected
\* tiles on their origin and finished the game
C25_Witness ==
    /\ lastOp = "callback"
    /\ puzzleShape = <<3, 2>>
    /\ checkResult(This)
    /\ checkTilePosition(tiles[tileCnt - 2])
    /\ hooks = <<"finish">>

\* C26: a reShuffle that throws for its fixed shuffle leaves isRunning, every
\* gridCurrent, the void visibility and the stored fixed shuffle as they
\* were and invokes no hook
C26_FailedReShuffleChangesNothing ==
    [][(lastOp' = "reShuffle" /\ error' # NoError) =>
          /\ isRunning' = isRunning
          /\ tiles' = tiles
          /\ voidAlive' = voidAlive
          /\ fixedShuffleArr' = fixedShuffleArr
          /\ hooks' = <<>>]_vars

\* C27: the operation that follows a resolve, unless it is a click or a
\* reShuffle, leaves every tile on its origin and the game not running
C27_ResolvedStaysSolved ==
    [][(lastOp = "resolve" /\ lastOp' \notin {"click", "reShuffle"}) =>
          /\ AllAtOrigin(tiles')
          /\ ~isRunning']_vars

\* C28: with every animation reaching its end, a locked input is unlocked
\* again and the pending move committed; and the input is unlocked by no
\* operation but the callback
C28_LockIsReleasedByCallbackOnly ==
    /\ (lockedInput /\ animation # Undefined) ~> (~lockedInput /\ animation = Undefined)
    /\ [][(lockedInput /\ ~lockedInput') => lastOp' = "callback"]_vars

\* C28 witness: the callback of a move has unlocked the input of a game
\* that stays running
C28_Witness ==
    /\ lastOp = "callback"
    /\ ~lockedInput
    /\ animation = Undefined
    /\ isRunning
    /\ hooks = <<>>

\* C29: with a fair random source the loop of getShuffleArray is left; every
\* iteration rolls a full permutation, a rejected one is followed by another
\* iteration whatever the number of iterations before, and the array
\* returned is the one the checker accepted last
C29_ShuffleLoopTerminates ==
    /\ (pc = "while") ~> (pc = "returned")
    /\ [][/\ (pc = "while" /\ pc' = "while") => IsPermutation0(shuffleArr', tileCnt)
          /\ (pc = "while" /\ ~isSolvable) => pc' = "while"
          /\ pc' = "returned" =>
                /\ isSolvable
                /\ shuffleArr' = shuffleArr
                /\ permutationProof(shuffleArr', puzzleShape)]_vars

\* C29 witness: the loop is about to run again after a rejected shuffle
C29_Witness ==
    /\ pc = "while"
    /\ ~isSolvable
    /\ IsPermutation0(shuffleArr, tileCnt)
    /\ ~permutationProof(shuffleArr, puzzleShape)

\* C30: with no move in flight the Transform position of every tile is the
\* place of the cell the tile is on: the layout origin plus
\* (-gridCurrent.y * tileDist.y, 0, gridCurrent.x * tileDist.x)
C30_PositionAgreesWithGrid ==
    (phase = "ready" /\ animation = Undefined) =>
        \A n \in DOMAIN position :
            position[n] = tileSortPos(tiles[n].gridCurrent, tileDist)

\* C31: an operation that invokes finish is the callback of an animated
\* move and invokes it once; the hook runs with isRunning as the callback
\* found it and with the input still locked, and the callback then leaves
\* the game stopped and the input unlocked
C31_FinishOnlyOnCommit ==
    [][(\E i \in DOMAIN hooks' : hooks'[i] = "finish") =>
          /\ lastOp' = "callback"
          /\ Cardinality({i \in DOMAIN hooks' : hooks'[i] = "finish"}) = 1
          /\ \A i \in DOMAIN hooks' :
                hooks'[i] = "finish" =>
                    /\ hookState'[i].isRunning = isRunning
                    /\ hookState'[i].lockedInput
          /\ ~isRunning'
          /\ ~lockedInput']_vars

\* C31 witness: a callback has invoked finish, which ran with the game
\* running and the input locked, and has left the game stopped and unlocked
C31_Witness ==
    /\ lastOp = "callback"
    /\ hooks = <<"finish">>
    /\ hookState = <<[isRunning |-> TRUE, lockedInput |-> TRUE]>>
    /\ ~isRunning
    /\ ~lockedInput

\* C32: an operation on a constructed game changes no tile's index or
\* gridOrigin, nor the puzzle shape, the tile count or the set of tiles; and
\* the fixed shuffle of a setup is, after the constructor has validated it
\* and run the solvability checker on it, the array that was passed
C32_OriginsAndCandidateKept ==
    [][/\ phase = "ready" =>
            /\ puzzleShape' = puzzleShape
            /\ tileCnt' = tileCnt
            /\ DOMAIN tiles' = DOMAIN tiles
            /\ \A n \in DOMAIN tiles :
                  /\ tiles'[n].index = tiles[n].index
                  /\ tiles'[n].gridOrigin = tiles[n].gridOrigin
       /\ lastOp' = "init" => arg' = setup'.fixedShuffle]_vars

\* C32 witness: a reShuffle with a fixed shuffle has been validated, stored
\* and applied, and every tile still has its index and its origin cell
C32_Witness ==
    /\ phase = "ready"
    /\ lastOp = "reShuffle"
    /\ error = NoError
    /\ arg # Undefined
    /\ fixedShuffleArr = arg
    /\ ~AllAtOrigin(tiles)
    /\ \A n \in TileIds :
          tiles[n].index = n /\ tiles[n].gridOrigin = toGrid(n, puzzleShape)
====
